---- MODULE Spec2Model ----
(***************************************************************************)
(* Model of the ingestion loop of create_log_db.py (process_log_files):    *)
(* line classification, multi-line stitching and batched persistence of    *)
(* gzip archives into the three sqlite tables logs, stack_traces and       *)
(* parsing_errors.                                                         *)
(*                                                                         *)
(* Spec     one archive, the sink never raises.                            *)
(* RunSpec  several archives; sink calls and the archive reader may raise. *)
(*                                                                         *)
(* Text is modelled as a sequence of segments, one per physical line; the  *)
(* Python value is the segments joined with "\n".  A segment names the     *)
(* archive line it was taken from and which part of that line it is: the   *)
(* whole (stripped) line, or the message group captured by the pattern.    *)
(* Lines never contain a newline, so two texts are equal exactly when      *)
(* their segment sequences are equal.                                      *)
(***************************************************************************)
EXTENDS Integers, Sequences, FiniteSets, TLC

\* ------------------------------------------------------------------ bounds
\* Longest archive explored (number of physical lines).
MaxLines == 6
\* Largest batch_size explored; the program uses 1000 (line 176).
MaxBatchSize == 3
\* Checkpoint interval explored; the program uses 100000 (line 281).
CommitEvery == 2
\* Number of archives find_gz_files returns in the runs with several archives.
NumArchives == 2
\* Lines read over all archives in the runs with several archives and faults.
MaxRunLines == 3
\* Longest text of a line explored, in units (see Chars).
MaxTextLen == 9

\* ------------------------------------------------------------- input lines
\* What the three patterns and strip() say about a line:
\*   primary  : LOG_PATTERN matches (then ALT_LOG_PATTERN matches as well)
\*   fallback : only ALT_LOG_PATTERN matches
\*   trace    : neither pattern matches, is_stack_trace_line is true
\*   other    : non-blank, nothing matches
\*   blank    : empty after strip()
Kinds == {"primary", "fallback", "trace", "other", "blank"}

\* The n-th line read in the run (n counts over all archives, so that a
\* line is told from the same line number of another archive).
Line(n, k) == [no |-> n, kind |-> k]

\* Python None / a present value.
None == <<>>
Some(x) == <<x>>

\* One physical line's worth of text.
Seg(n, p) == [no |-> n, part |-> p]

VARIABLES
    input,                  \* the lines read from the archive so far
    pc,                     \* "reading" inside the for loop, "done" after commit
    batch_size,             \* line 176, scaled down to 1..MaxBatchSize
    executemany_sets_lastrowid,     \* what the driver does, see lastrowid
    line_count,
    batch, error_batch, stack_trace_batch,
    current_log_entry, current_stack_trace, last_log_id,
    logs, parsing_errors, stack_traces,     \* the three tables, row id = index
    committed,              \* table lengths at the last conn.commit()
    archive,                \* position of log_file in log_files
    archive_start,          \* number of lines read before this archive
    event,                  \* how the last step ended: "ok", or what raised
                            \* and where (see LineExceptions, ArchiveExceptions)
    text,                   \* a line as read from the archive, character by
                            \* character (see Units)
    scan,                   \* what the loop has done with text: "reading" it,
                            \* "skipped" it as blank, "classified" it
    text_is_new_log,        \* is_new_log of line 192 for text
    text_parsed,            \* parsed of line 201 for text
    main_pc,                \* the statement of main that runs next
    log_files,              \* number of archives find_gz_files returned
    returned,               \* what process_log_files returned: "None", the
                            \* "tuple" of its three counters, or "nothing"
                            \* while it has not returned
    exit_status             \* the exit status of the run, None while it runs

vars == <<input, pc, batch_size, executemany_sets_lastrowid, line_count,
          batch, error_batch, stack_trace_batch,
          current_log_entry, current_stack_trace, last_log_id,
          logs, parsing_errors, stack_traces, committed,
          archive, archive_start, event,
          text, scan, text_is_new_log, text_parsed,
          main_pc, log_files, returned, exit_status>>

\* The variables of the loop over the archives / of the classification of
\* one line's text.
loop_vars == <<input, pc, batch_size, executemany_sets_lastrowid, line_count,
               batch, error_batch, stack_trace_batch,
               current_log_entry, current_stack_trace, last_log_id,
               logs, parsing_errors, stack_traces, committed,
               archive, archive_start, event>>

text_vars == <<text, scan, text_is_new_log, text_parsed>>

\* The variables of main.
main_vars == <<main_pc, log_files, returned, exit_status>>

\* ---------------------------------------------------------- pattern matcher
matches_LOG_PATTERN(line) == line.kind = "primary"

matches_ALT_LOG_PATTERN(line) == line.kind \in {"primary", "fallback"}

is_stack_trace_line(line) == line.kind = "trace"

\* parse_log_line: primary, then fallback, then stack trace, then unparsed.
\* A text field is the sequence of its lines; keys the Python dict lacks
\* are present here with an empty value.
parse_log_line(line) ==
    IF matches_LOG_PATTERN(line) THEN
        [parsed |-> TRUE, is_stack_trace |-> FALSE, module |-> "module",
         message |-> <<Seg(line.no, "message")>>,
         raw_log |-> <<Seg(line.no, "line")>>,
         stack_trace_line |-> <<>>, error |-> ""]
    ELSE IF matches_ALT_LOG_PATTERN(line) THEN
        [parsed |-> TRUE, is_stack_trace |-> FALSE, module |-> "",
         message |-> <<Seg(line.no, "message")>>,
         raw_log |-> <<Seg(line.no, "line")>>,
         stack_trace_line |-> <<>>, error |-> ""]
    ELSE IF is_stack_trace_line(line) THEN
        [parsed |-> TRUE, is_stack_trace |-> TRUE, module |-> "",
         message |-> <<>>, raw_log |-> <<>>,
         stack_trace_line |-> <<Seg(line.no, "line")>>, error |-> ""]
    ELSE
        [parsed |-> FALSE, is_stack_trace |-> FALSE, module |-> "",
         message |-> <<Seg(line.no, "line")>>,
         raw_log |-> <<Seg(line.no, "line")>>,
         stack_trace_line |-> <<>>,
         error |-> "Could not parse log line with any pattern"]

\* ------------------------------------------------------------ storage sink
\* cursor.executemany(INSERT ...): rows get consecutive AUTOINCREMENT ids.
executemany(table, rows) == table \o rows

\* cursor.lastrowid read right after executemany on the logs table (lines
\* 263 and 301).  DB-API (PEP 249) leaves its value undefined after
\* executemany, so both outcomes are modelled, fixed per run by
\* executemany_sets_lastrowid:
\*   FALSE  the attribute is left as it was.  The cursor is the one that ran
\*          the CREATE TABLE statements of create_database (lines 41-80) on
\*          a fresh file and the program never calls execute() with an
\*          INSERT, so the value is 0 throughout (CPython's sqlite3).
\*   TRUE   the attribute is the id of the last row inserted, as the comment
\*          of line 261 expects.
lastrowid(table) == IF executemany_sets_lastrowid THEN Len(table) ELSE 0

\* ------------------------------------------------------------------- Init
\* Lines 155-157 and 173-182: the tables are empty and the first archive's
\* locals are fresh.
LoopInit ==
    /\ input = <<>>
    /\ batch_size \in 1..MaxBatchSize
    /\ executemany_sets_lastrowid \in BOOLEAN
    /\ line_count = 0
    /\ batch = <<>>
    /\ error_batch = <<>>
    /\ stack_trace_batch = <<>>
    /\ current_log_entry = None
    /\ current_stack_trace = <<>>
    /\ last_log_id = None
    /\ logs = <<>>
    /\ parsing_errors = <<>>
    /\ stack_traces = <<>>
    /\ committed = <<0, 0, 0>>
    /\ archive = 1
    /\ archive_start = 0
    /\ event = "ok"
    /\ text = <<>>
    /\ scan = "reading"
    /\ text_is_new_log = FALSE
    /\ text_parsed = None

\* process_log_files at the top of its loop body for the first of
\* NumArchives archives.
Init ==
    /\ LoopInit
    /\ pc = "reading"
    /\ main_pc = "process_log_files"
    /\ log_files = NumArchives
    /\ returned = "nothing"
    /\ exit_status = None

\* ------------------------------------------------- the body of the for loop
\* The loop's locals and the tables, threaded through the steps of one
\* iteration in program order.
Locals ==
    [batch |-> batch, error_batch |-> error_batch,
     stack_trace_batch |-> stack_trace_batch,
     current_log_entry |-> current_log_entry,
     current_stack_trace |-> current_stack_trace,
     last_log_id |-> last_log_id,
     logs |-> logs, parsing_errors |-> parsing_errors,
     stack_traces |-> stack_traces]

is_new_log(line) == matches_LOG_PATTERN(line) \/ matches_ALT_LOG_PATTERN(line)

\* Condition of line 195 / line 304 without the is_new_log conjunct.
can_save_stack_trace(s) ==
    s.current_stack_trace # <<>> /\ s.last_log_id # None

\* SaveStackTrace with the reset of line 199 lost: the collected trace is
\* kept after it has been saved.
SaveStackTrace_KeepsTrace(s, line) ==
    IF is_new_log(line) /\ can_save_stack_trace(s) THEN
        [s EXCEPT !.stack_trace_batch =
                      Append(@, [log_id |-> s.last_log_id[1],
                                 stack_trace |-> s.current_stack_trace])]
    ELSE s

\* Lines 195-199: a new log line saves the stack trace collected so far.
SaveStackTrace(s, line) ==
    IF is_new_log(line) /\ can_save_stack_trace(s) THEN
        [s EXCEPT !.stack_trace_batch =
                      Append(@, [log_id |-> s.last_log_id[1],
                                 stack_trace |-> s.current_stack_trace]),
                  !.current_stack_trace = <<>>]
    ELSE s

\* The tuple appended to batch at lines 208-217.
LogRow(parsed) ==
    [module |-> parsed.module, message |-> parsed.message,
     raw_log |-> parsed.raw_log, has_stack_trace |-> 0]

\* NewLogEntry leaving no current entry behind: the record is buffered but
\* current_log_entry is None afterwards, as in the else branch of line 227.
NewLogEntry_ForgetsEntry(s, line, parsed) ==
    IF parsed.parsed THEN
        [s EXCEPT !.batch = Append(@, LogRow(parsed)),
                  !.current_log_entry = None]
    ELSE
        [s EXCEPT !.error_batch =
                      Append(@, [line |-> line.no, error_message |-> parsed.error]),
                  !.current_log_entry = None]

\* Lines 204-227: a new log entry.
NewLogEntry(s, line, parsed) ==
    IF parsed.parsed THEN
        [s EXCEPT !.batch = Append(@, LogRow(parsed)),
                  !.current_log_entry = Some(parsed)]
    ELSE
        [s EXCEPT !.error_batch =
                      Append(@, [line |-> line.no, error_message |-> parsed.error]),
                  !.current_log_entry = None]

\* MarkHasStackTrace reaching into the table: when the entry has left the
\* batch, its row in logs is updated instead.
MarkHasStackTrace_UpdatesRow(s) ==
    IF s.current_log_entry # None /\ s.batch # <<>> THEN
        [s EXCEPT !.batch[Len(s.batch)].has_stack_trace = 1]
    ELSE IF s.current_log_entry # None /\ s.logs # <<>> THEN
        [s EXCEPT !.logs[Len(s.logs)].has_stack_trace = 1]
    ELSE s

\* Lines 233-237: flag the last entry of the batch.
MarkHasStackTrace(s) ==
    IF s.current_log_entry # None /\ s.batch # <<>> THEN
        [s EXCEPT !.batch[Len(s.batch)].has_stack_trace = 1]
    ELSE s

\* Lines 228-237: a stack trace line.
StackTraceLine(s, line, parsed) ==
    MarkHasStackTrace(
        [s EXCEPT !.current_stack_trace = Append(@, parsed.stack_trace_line[1])])

\* Lines 242-246: extend message and raw_log of the last entry of the batch.
AppendToLastEntry(s, line) ==
    IF s.batch # <<>> THEN
        [s EXCEPT !.batch[Len(s.batch)].message = Append(@, Seg(line.no, "line")),
                  !.batch[Len(s.batch)].raw_log = Append(@, Seg(line.no, "line"))]
    ELSE s

\* ContinuationLine with the else branch of line 247 lost: an orphan line
\* is dropped instead of being recorded.
ContinuationLine_NoOrphanError(s, line) == AppendToLastEntry(s, line)

\* Lines 238-253: a continuation of the previous log, or an error.
ContinuationLine(s, line) ==
    IF s.current_log_entry # None THEN AppendToLastEntry(s, line)
    ELSE [s EXCEPT !.error_batch =
              Append(@, [line |-> line.no,
                         error_message |-> "Continuation line without a parent log entry"])]

\* Lines 201-253.
HandleLine(s, line) ==
    LET parsed == parse_log_line(line) IN
    IF is_new_log(line) THEN NewLogEntry(s, line, parsed)
    ELSE IF parsed.is_stack_trace THEN StackTraceLine(s, line, parsed)
    ELSE ContinuationLine(s, line)

\* InsertBatch inserting one row instead of the batch (execute with the
\* last entry in place of executemany with all of them).
InsertBatch_LastOnly(s) ==
    LET t == executemany(s.logs, SubSeq(s.batch, Len(s.batch), Len(s.batch))) IN
    [s EXCEPT !.logs = t,
              !.last_log_id = IF s.current_stack_trace # <<>>
                              THEN Some(lastrowid(t)) ELSE @]

\* Lines 257-264 and 295-301: bulk insert of the record batch; last_log_id
\* is refreshed only while a stack trace is being collected.  The caller
\* decides whether batch is emptied afterwards.
InsertBatch(s) ==
    LET t == executemany(s.logs, s.batch) IN
    [s EXCEPT !.logs = t,
              !.last_log_id = IF s.current_stack_trace # <<>>
                              THEN Some(lastrowid(t)) ELSE @]

\* FlushBatch with the test of line 256 as > instead of >=: the batch is
\* flushed one entry late.
FlushBatch_OneLate(s) ==
    IF Len(s.batch) > batch_size
    THEN [InsertBatch(s) EXCEPT !.batch = <<>>]
    ELSE s

\* Lines 256-264.
FlushBatch(s) ==
    IF Len(s.batch) >= batch_size
    THEN [InsertBatch(s) EXCEPT !.batch = <<>>]
    ELSE s

\* Lines 266-271.
FlushErrorBatch(s) ==
    IF Len(s.error_batch) >= batch_size
    THEN [s EXCEPT !.parsing_errors = executemany(@, s.error_batch),
                   !.error_batch = <<>>]
    ELSE s

\* Lines 273-278.
FlushStackTraceBatch(s) ==
    IF Len(s.stack_trace_batch) >= batch_size
    THEN [s EXCEPT !.stack_traces = executemany(@, s.stack_trace_batch),
                   !.stack_trace_batch = <<>>]
    ELSE s

\* Lines 190-278: one non-blank line from classification to the flushes.
LineStep(s, line) ==
    FlushStackTraceBatch(FlushErrorBatch(FlushBatch(
        HandleLine(SaveStackTrace(s, line), line))))

\* Assign the locals and the tables from s.
Store(s) ==
    /\ batch' = s.batch
    /\ error_batch' = s.error_batch
    /\ stack_trace_batch' = s.stack_trace_batch
    /\ current_log_entry' = s.current_log_entry
    /\ current_stack_trace' = s.current_stack_trace
    /\ last_log_id' = s.last_log_id
    /\ logs' = s.logs
    /\ parsing_errors' = s.parsing_errors
    /\ stack_traces' = s.stack_traces

TableLengths(s) == <<Len(s.logs), Len(s.parsing_errors), Len(s.stack_traces)>>

\* ---------------------------------------------------------------- actions
\* SkipBlankLine with the test of line 187 lost: the blank line goes through
\* the loop body like any other unclassified line.
SkipBlankLine_NotSkipped ==
    /\ pc = "reading"
    /\ line_count < MaxLines
    /\ LET line == Line(Len(input) + 1, "blank")
       IN  /\ input' = Append(input, line)
           /\ Store(LineStep(Locals, line))
    /\ line_count' = line_count + 1
    /\ event' = "ok"
    /\ UNCHANGED text_vars
    /\ UNCHANGED main_vars
    /\ UNCHANGED <<pc, batch_size, executemany_sets_lastrowid, committed,
                   archive, archive_start>>

\* Lines 184-188: a blank line is counted and skipped.
SkipBlankLine ==
    /\ pc = "reading"
    /\ line_count < MaxLines
    /\ input' = Append(input, Line(Len(input) + 1, "blank"))
    /\ line_count' = line_count + 1
    /\ event' = "ok"
    /\ UNCHANGED text_vars
    /\ UNCHANGED main_vars
    /\ UNCHANGED <<pc, batch_size, executemany_sets_lastrowid,
                   batch, error_batch, stack_trace_batch,
                   current_log_entry, current_stack_trace, last_log_id,
                   logs, parsing_errors, stack_traces, committed,
                   archive, archive_start>>

\* Lines 184-283: one non-blank line.
ProcessLine ==
    /\ pc = "reading"
    /\ line_count < MaxLines
    /\ \E k \in Kinds \ {"blank"} :
        LET line == Line(Len(input) + 1, k)
            s == LineStep(Locals, line)
        IN  /\ input' = Append(input, line)
            /\ line_count' = line_count + 1
            /\ Store(s)
            /\ committed' = IF (line_count + 1) % CommitEvery = 0
                            THEN TableLengths(s) ELSE committed
    /\ event' = "ok"
    /\ UNCHANGED text_vars
    /\ UNCHANGED main_vars
    /\ UNCHANGED <<pc, batch_size, executemany_sets_lastrowid,
                   archive, archive_start>>

\* Lines 294-301.
InsertRemainingLogs(s) == IF s.batch # <<>> THEN InsertBatch(s) ELSE s

\* Lines 304-307: current_stack_trace is not cleared here.
SaveFinalStackTrace(s) ==
    IF can_save_stack_trace(s) THEN
        [s EXCEPT !.stack_trace_batch =
                      Append(@, [log_id |-> s.last_log_id[1],
                                 stack_trace |-> s.current_stack_trace])]
    ELSE s

\* Lines 309-319.
InsertRemainingErrorsAndTraces(s) ==
    [s EXCEPT !.parsing_errors = IF s.error_batch # <<>>
                                 THEN executemany(@, s.error_batch) ELSE @,
              !.stack_traces = IF s.stack_trace_batch # <<>>
                               THEN executemany(@, s.stack_trace_batch) ELSE @]

\* Lines 293-321: the archive is exhausted.
EndOfArchive ==
    /\ pc = "reading"
    /\ LET s == InsertRemainingErrorsAndTraces(
                    SaveFinalStackTrace(InsertRemainingLogs(Locals)))
       IN  /\ Store(s)
           /\ committed' = TableLengths(s)
    /\ pc' = "done"
    /\ event' = "ok"
    /\ UNCHANGED text_vars
    /\ UNCHANGED main_vars
    /\ UNCHANGED <<input, batch_size, executemany_sets_lastrowid, line_count,
                   archive, archive_start>>

Next == SkipBlankLine \/ ProcessLine \/ EndOfArchive

Spec == Init /\ [][Next]_vars

\* ------------------------------------------- faults and several archives
\* The calls of the loop body that can raise are the sink calls: the three
\* executemany (lines 257, 267, 274) and conn.commit (line 282).  A call
\* that raises changes nothing in the tables.
SinkCalls == {"logs", "errors", "stack_traces", "commit"}

\* Values of event for an exception caught by the handler of the loop body
\* (line 285) and by the handler of the archive (line 329).
LineExceptions == {"flush_raised_in_line", "commit_raised_in_line"}

ArchiveExceptions ==
    {"flush_raised_at_end", "commit_raised_at_end", "read_raised"}

\* The locals and tables when control reaches sink call c of the loop body.
BeforeCall(s, line, c) ==
    LET s1 == HandleLine(SaveStackTrace(s, line), line)
        s2 == FlushBatch(s1)
        s3 == FlushErrorBatch(s2)
    IN  CASE c = "logs" -> s1
          [] c = "errors" -> s2
          [] c = "stack_traces" -> s3
          [] c = "commit" -> FlushStackTraceBatch(s3)

\* Sink call c is executed for this line (conditions of lines 256, 266,
\* 273 and 281).
Executes(s, line, c) ==
    LET b == BeforeCall(s, line, c)
    IN  CASE c = "logs" -> Len(b.batch) >= batch_size
          [] c = "errors" -> Len(b.error_batch) >= batch_size
          [] c = "stack_traces" -> Len(b.stack_trace_batch) >= batch_size
          [] c = "commit" -> (line_count + 1) % CommitEvery = 0

\* Lines 285-291: the handler of the loop body.
LineExceptionHandler(s, line) ==
    [s EXCEPT !.error_batch =
         Append(@, [line |-> line.no, error_message |-> "Exception"])]

\* Lines 184-291: a non-blank line during which sink call c raises; the
\* rest of the body, the checkpoint included, is skipped.
ProcessLineFault ==
    /\ pc = "reading"
    /\ \E k \in Kinds \ {"blank"}, c \in SinkCalls :
        LET line == Line(Len(input) + 1, k)
        IN  /\ Executes(Locals, line, c)
            /\ input' = Append(input, line)
            /\ Store(LineExceptionHandler(BeforeCall(Locals, line, c), line))
            /\ event' = IF c = "commit" THEN "commit_raised_in_line"
                        ELSE "flush_raised_in_line"
    /\ line_count' = line_count + 1
    /\ UNCHANGED text_vars
    /\ UNCHANGED main_vars
    /\ UNCHANGED <<pc, batch_size, executemany_sets_lastrowid, committed,
                   archive, archive_start>>

\* Line 332: conn.rollback() discards the rows inserted since the last
\* commit (the AUTOINCREMENT counters are part of the transaction).
rollback(s) ==
    [s EXCEPT !.logs = SubSeq(@, 1, committed[1]),
              !.parsing_errors = SubSeq(@, 1, committed[2]),
              !.stack_traces = SubSeq(@, 1, committed[3])]

\* Lines 293-321 and 329-332: a sink call after the loop raises.  The
\* locals are as the statements before the call left them.
EndOfArchiveFault ==
    /\ pc = "reading"
    /\ \E c \in SinkCalls :
        LET s1 == Locals
            s2 == SaveFinalStackTrace(InsertRemainingLogs(s1))
        IN  /\ \/ /\ c = "logs" /\ s1.batch # <<>>
                  /\ Store(rollback(s1))
               \/ /\ c = "errors" /\ s2.error_batch # <<>>
                  /\ Store(rollback(s2))
               \/ /\ c = "stack_traces" /\ s2.stack_trace_batch # <<>>
                  /\ Store(rollback(s2))
               \/ /\ c = "commit"
                  /\ Store(rollback(s2))
            /\ event' = IF c = "commit" THEN "commit_raised_at_end"
                        ELSE "flush_raised_at_end"
    /\ pc' = "done"
    /\ UNCHANGED text_vars
    /\ UNCHANGED main_vars
    /\ UNCHANGED <<input, batch_size, executemany_sets_lastrowid, line_count,
                   committed, archive, archive_start>>

\* Lines 172, 184 and 329-332: opening or reading the archive raises.
ReadFault ==
    /\ pc = "reading"
    /\ Store(rollback(Locals))
    /\ pc' = "done"
    /\ event' = "read_raised"
    /\ UNCHANGED text_vars
    /\ UNCHANGED main_vars
    /\ UNCHANGED <<input, batch_size, executemany_sets_lastrowid, line_count,
                   committed, archive, archive_start>>

\* FreshLocals with lines 180-182 lost: the stitching state of the archive
\* before is still there when the next archive starts.
FreshLocals_KeepsStitching(s) ==
    [s EXCEPT !.batch = <<>>, !.error_batch = <<>>,
              !.stack_trace_batch = <<>>]

\* Lines 173-182: the locals at the start of an archive.
FreshLocals(s) ==
    [s EXCEPT !.batch = <<>>, !.error_batch = <<>>,
              !.stack_trace_batch = <<>>,
              !.current_log_entry = None,
              !.current_stack_trace = <<>>,
              !.last_log_id = None]

\* Lines 160-182: the next archive is opened.
OpenArchive ==
    /\ pc = "done"
    /\ archive < log_files
    /\ archive' = archive + 1
    /\ archive_start' = Len(input)
    /\ Store(FreshLocals(Locals))
    /\ line_count' = 0
    /\ pc' = "reading"
    /\ event' = "ok"
    /\ UNCHANGED text_vars
    /\ UNCHANGED main_vars
    /\ UNCHANGED <<input, batch_size, executemany_sets_lastrowid, committed>>

\* The loop body and the blank-line skip, within the run's line budget.
ReadLine ==
    /\ Len(input) < MaxRunLines
    /\ (SkipBlankLine \/ ProcessLine \/ ProcessLineFault)

RunNext ==
    ReadLine \/ EndOfArchive \/ EndOfArchiveFault \/ ReadFault \/ OpenArchive

RunSpec == Init /\ [][RunNext]_vars

\* ------------------------------------------------------------------- main
\* Lines 389-392: the handler of main logs the error and calls sys.exit(1).
\* what is the statement that raised.
ErrorHandler(what) ==
    /\ main_pc' = "exited"
    /\ exit_status' = Some(1)
    /\ event' = what

\* Lines 34-80 and 352: the database is opened and its tables are created,
\* or sqlite3 raises.
CreateDatabase ==
    /\ main_pc = "create_database"
    /\ \/ /\ main_pc' = "find_gz_files"
          /\ UNCHANGED <<event, exit_status>>
       \/ ErrorHandler("create_database_raised")
    /\ UNCHANGED text_vars
    /\ UNCHANGED <<log_files, returned>>
    /\ UNCHANGED <<input, pc, batch_size, executemany_sets_lastrowid,
                   line_count, batch, error_batch, stack_trace_batch,
                   current_log_entry, current_stack_trace, last_log_id,
                   logs, parsing_errors, stack_traces, committed,
                   archive, archive_start>>

\* Lines 141-145 and 150-172: process_log_files is called and lists the
\* archives.  With none it returns at line 153, a return without a value;
\* otherwise it enters its loop with the first archive.
FindGzFiles ==
    /\ main_pc = "find_gz_files"
    /\ \E n \in 0..NumArchives :
          /\ log_files' = n
          /\ IF n = 0
             THEN /\ returned' = "None"
                  /\ main_pc' = "unpack"
                  /\ pc' = pc
             ELSE /\ returned' = returned
                  /\ main_pc' = "process_log_files"
                  /\ pc' = "reading"
    /\ UNCHANGED text_vars
    /\ UNCHANGED exit_status
    /\ UNCHANGED <<input, batch_size, executemany_sets_lastrowid,
                   line_count, batch, error_batch, stack_trace_batch,
                   current_log_entry, current_stack_trace, last_log_id,
                   logs, parsing_errors, stack_traces, committed,
                   archive, archive_start, event>>

\* Line 334: after the last archive the three counters are returned.
ReturnTotals ==
    /\ main_pc = "process_log_files"
    /\ pc = "done"
    /\ archive = log_files
    /\ returned' = "tuple"
    /\ main_pc' = "unpack"
    /\ UNCHANGED text_vars
    /\ UNCHANGED <<log_files, exit_status>>
    /\ UNCHANGED loop_vars

\* Line 355: the returned value is unpacked into three names; unpacking
\* None raises TypeError.
Unpack ==
    /\ main_pc = "unpack"
    /\ IF returned = "tuple"
       THEN /\ main_pc' = "create_indexes"
            /\ UNCHANGED <<event, exit_status>>
       ELSE ErrorHandler("unpack_raised")
    /\ UNCHANGED text_vars
    /\ UNCHANGED <<log_files, returned>>
    /\ UNCHANGED <<input, pc, batch_size, executemany_sets_lastrowid,
                   line_count, batch, error_batch, stack_trace_batch,
                   current_log_entry, current_stack_trace, last_log_id,
                   logs, parsing_errors, stack_traces, committed,
                   archive, archive_start>>

\* Lines 336-346 and 356: the indexes are created and committed, or a sink
\* call raises.
create_indexes ==
    /\ main_pc = "create_indexes"
    /\ \/ /\ main_pc' = "stats"
          /\ UNCHANGED <<event, exit_status>>
       \/ ErrorHandler("create_indexes_raised")
    /\ UNCHANGED text_vars
    /\ UNCHANGED <<log_files, returned>>
    /\ UNCHANGED <<input, pc, batch_size, executemany_sets_lastrowid,
                   line_count, batch, error_batch, stack_trace_batch,
                   current_log_entry, current_stack_trace, last_log_id,
                   logs, parsing_errors, stack_traces, committed,
                   archive, archive_start>>

\* Lines 358-388: the statistics are logged, the connection is closed and
\* main returns.
LogStatistics ==
    /\ main_pc = "stats"
    /\ main_pc' = "exited"
    /\ exit_status' = Some(0)
    /\ UNCHANGED text_vars
    /\ UNCHANGED <<log_files, returned>>
    /\ UNCHANGED loop_vars

\* Line 348: main has been called, process_log_files not yet.
MainInit ==
    /\ LoopInit
    /\ pc = "not called"
    /\ main_pc = "create_database"
    /\ log_files = 0
    /\ returned = "nothing"
    /\ exit_status = None

MainNext ==
    \/ CreateDatabase \/ FindGzFiles
    \/ ReadLine \/ EndOfArchive \/ EndOfArchiveFault \/ ReadFault \/ OpenArchive
    \/ ReturnTotals \/ Unpack \/ create_indexes \/ LogStatistics

MainSpec == MainInit /\ [][MainNext]_vars

\* ------------------------------------------- the pattern matcher on text
\* A line's text is a sequence of units.  A unit is one character or a
\* fixed piece of text that the patterns can only match as a whole:
\*   "TS"             "2025-03-06 00:00:00,024 [T-1] INFO", a timestamp, a
\*                    thread and the first letters of the level
\*   "at"             the word
\*   "at c.x.Y.run("  a stack frame up to its parenthesis
\*   "Caused by:"     "java.lang."     "Exception"
\*   "w"  a letter    " "  a space     "-"  a hyphen
\* The pieces that are not single characters or words stand at the start
\* of a line only.
Chars == {"w", " ", "-", "Exception"}

Heads == {"TS", "at", "at c.x.Y.run(", "Caused by:", "java.lang."}

\* \w, \s and [^\s-] on units.
WordUnits == {"w", "Exception", "at"}

SpaceUnits == {" "}

ModuleUnits == (Chars \cup Heads) \ (SpaceUnits \cup {"-"})

IsWord(u) == u \in WordUnits

IsSpace(u) == u \in SpaceUnits

\* The end of the longest run of units of class S that starts at position
\* i of line (i - 1 if there is none): what a greedy [S]+ takes when the
\* pattern goes on with something outside S.
RunEnd(line, i, S) ==
    CHOOSE j \in (i - 1)..Len(line) :
        /\ \A x \in i..j : line[x] \in S
        /\ j = Len(line) \/ line[j + 1] \notin S

\* str.strip() of line 186.
strip(line) ==
    LET keep == {i \in 1..Len(line) : ~IsSpace(line[i])}
    IN  IF keep = {} THEN <<>>
        ELSE SubSeq(line, CHOOSE i \in keep : \A k \in keep : i <= k,
                          CHOOSE i \in keep : \A k \in keep : k <= i)

\* Line 25, re.match(LOG_PATTERN, line): None, or the groups level (the
\* part after "INFO"), module and message.  After the timestamp and the
\* thread, (\w+) is the whole run of word characters, \s+ the whole run of
\* spaces after it and ([^\s-]+) the whole run after that, because each
\* must be followed by something it excludes; " - " and at least one more
\* character must follow.
LOG_PATTERN(line) ==
    IF line = <<>> \/ line[1] # "TS" THEN None
    ELSE
        LET n == Len(line)
            j == RunEnd(line, 2, WordUnits)
            k == RunEnd(line, j + 1, SpaceUnits)
            m == RunEnd(line, k + 1, ModuleUnits)
        IN  IF /\ k > j /\ m > k /\ m + 4 <= n
               /\ line[m + 1] = " " /\ line[m + 2] = "-" /\ line[m + 3] = " "
            THEN Some([level |-> SubSeq(line, 2, j),
                       module |-> SubSeq(line, k + 1, m),
                       message |-> SubSeq(line, m + 4, n)])
            ELSE None

\* Line 28, re.match(ALT_LOG_PATTERN, line): None, or the groups level and
\* message.  \s+ takes all the spaces after the level if a character is
\* left for (.+), and all but the last one otherwise.
ALT_LOG_PATTERN(line) ==
    IF line = <<>> \/ line[1] # "TS" THEN None
    ELSE
        LET n == Len(line)
            j == RunEnd(line, 2, WordUnits)
            k == RunEnd(line, j + 1, SpaceUnits)
        IN  IF k > j /\ k < n
            THEN Some([level |-> SubSeq(line, 2, j),
                       message |-> SubSeq(line, k + 1, n)])
            ELSE IF k > j + 1
            THEN Some([level |-> SubSeq(line, 2, j),
                       message |-> SubSeq(line, n, n)])
            ELSE None

\* Line 31, re.match(STACK_TRACE_START_PATTERN, line) is not None, one
\* disjunct per alternative of the pattern.
STACK_TRACE_START_PATTERN(line) ==
    /\ line # <<>>
    /\ \/ /\ line[1] = "java.lang."
          /\ \E q \in 2..(Len(line) - 1) :
                (\A x \in 2..q : IsWord(line[x])) /\ line[q + 1] = "Exception"
       \/ line[1] = "Caused by:"
       \/ line[1] = "at c.x.Y.run("

\* line.strip().startswith("at ") and "Exception" in line, of line 84.
startswith_at(line) ==
    \/ Len(line) >= 2 /\ line[1] = "at" /\ line[2] = " "
    \/ line # <<>> /\ line[1] = "at c.x.Y.run("

contains_Exception(line) == \E i \in 1..Len(line) : line[i] = "Exception"

\* Lines 82-84 on text.
is_stack_trace_line_text(line) ==
    \/ STACK_TRACE_START_PATTERN(line)
    \/ startswith_at(strip(line))
    \/ contains_Exception(line)

\* parse_log_line_text with the stack trace test moved to the front: a
\* line is a stack trace line whenever is_stack_trace_line says so.
parse_log_line_text_TraceFirst(line) ==
    LET m == LOG_PATTERN(line)
        a == ALT_LOG_PATTERN(line)
    IN  IF is_stack_trace_line_text(line) THEN
            [parsed |-> TRUE, is_stack_trace |-> TRUE,
             module |-> <<>>, message |-> <<>>,
             raw_log |-> <<>>, stack_trace_line |-> Some(line), error |-> ""]
        ELSE IF m # None THEN
            [parsed |-> TRUE, is_stack_trace |-> FALSE,
             module |-> m[1].module, message |-> m[1].message,
             raw_log |-> line, stack_trace_line |-> None, error |-> ""]
        ELSE IF a # None THEN
            [parsed |-> TRUE, is_stack_trace |-> FALSE,
             module |-> <<>>, message |-> a[1].message,
             raw_log |-> line, stack_trace_line |-> None, error |-> ""]
        ELSE
            [parsed |-> FALSE, is_stack_trace |-> FALSE,
             module |-> <<>>, message |-> line,
             raw_log |-> line, stack_trace_line |-> None,
             error |-> "Could not parse log line with any pattern"]

\* Lines 86-139 on text; the dictionary returned, with the keys the loop
\* reads (missing keys as the defaults of its .get calls).
parse_log_line_text(line) ==
    LET m == LOG_PATTERN(line)
        a == ALT_LOG_PATTERN(line)
    IN  IF m # None THEN
            [parsed |-> TRUE, is_stack_trace |-> FALSE,
             module |-> m[1].module, message |-> m[1].message,
             raw_log |-> line, stack_trace_line |-> None, error |-> ""]
        ELSE IF a # None THEN
            [parsed |-> TRUE, is_stack_trace |-> FALSE,
             module |-> <<>>, message |-> a[1].message,
             raw_log |-> line, stack_trace_line |-> None, error |-> ""]
        ELSE IF is_stack_trace_line_text(line) THEN
            [parsed |-> TRUE, is_stack_trace |-> TRUE,
             module |-> <<>>, message |-> <<>>,
             raw_log |-> <<>>, stack_trace_line |-> Some(line), error |-> ""]
        ELSE
            [parsed |-> FALSE, is_stack_trace |-> FALSE,
             module |-> <<>>, message |-> line,
             raw_log |-> line, stack_trace_line |-> None,
             error |-> "Could not parse log line with any pattern"]

\* Line 192 on text.
is_new_log_text(line) == LOG_PATTERN(line) # None \/ ALT_LOG_PATTERN(line) # None

\* The kind under which the loop model reads a line with this text.
KindOfText(raw) ==
    LET line == strip(raw)
    IN  IF line = <<>> THEN "blank"
        ELSE IF LOG_PATTERN(line) # None THEN "primary"
        ELSE IF ALT_LOG_PATTERN(line) # None THEN "fallback"
        ELSE IF is_stack_trace_line_text(line) THEN "trace"
        ELSE "other"

\* The archive's line gets one unit longer.
NextUnit ==
    /\ scan = "reading"
    /\ Len(text) < MaxTextLen
    /\ \E u \in Chars \cup (IF text = <<>> THEN Heads ELSE {}) :
          text' = Append(text, u)
    /\ UNCHANGED <<scan, text_is_new_log, text_parsed>>
    /\ UNCHANGED loop_vars
    /\ UNCHANGED main_vars

\* Lines 186-188 on text: a blank line is skipped.
SkipBlankText ==
    /\ scan = "reading"
    /\ strip(text) = <<>>
    /\ scan' = "skipped"
    /\ UNCHANGED <<text, text_is_new_log, text_parsed>>
    /\ UNCHANGED loop_vars
    /\ UNCHANGED main_vars

\* Lines 186-201 on text: the line is stripped, tested for a new log and
\* parsed.
ClassifyLine ==
    /\ scan = "reading"
    /\ LET line == strip(text)
       IN  /\ line # <<>>
           /\ text_is_new_log' = is_new_log_text(line)
           /\ text_parsed' = Some(parse_log_line_text(line))
    /\ scan' = "classified"
    /\ UNCHANGED text
    /\ UNCHANGED loop_vars
    /\ UNCHANGED main_vars

TextInit == Init /\ batch_size = 1 /\ ~executemany_sets_lastrowid

TextNext == NextUnit \/ SkipBlankText \/ ClassifyLine

TextSpec == TextInit /\ [][TextNext]_vars

\* ------------------------------------------------- vocabulary of the claims
\* The non-blank lines of an archive, in order.
NonBlank(inp) == SelectSeq(inp, LAMBDA l : l.kind # "blank")

\* The line number of the new-log line that most recently precedes line m
\* of inp (the record that is current while line m is read); 0 if none.
OwnerLineIn(inp, m) ==
    LET c == {n \in 1..Len(inp) : n < m /\ is_new_log(inp[n])}
    IN  IF c = {} THEN 0 ELSE CHOOSE n \in c : \A k \in c : k <= n

OwnerLine(m) == OwnerLineIn(input, m)

\* The record opened by line n is a row of tbl / its position there.
HasRecord(tbl, n) == \E i \in 1..Len(tbl) : tbl[i].raw_log[1].no = n

PosOfRecord(tbl, n) == CHOOSE i \in 1..Len(tbl) : tbl[i].raw_log[1].no = n

\* Everything handed over for persistence so far, flushed or still buffered.
\* After the end of the archive the buffers keep their last content although
\* it has been inserted, so only the tables count then.
ClosedTraces == IF pc = "done" THEN stack_traces
                ELSE stack_traces \o stack_trace_batch

AllErrors == IF pc = "done" THEN parsing_errors
             ELSE parsing_errors \o error_batch

AllRecords == IF pc = "done" THEN logs ELSE logs \o batch

\* The step reads a line of kind k.
Reads(k) == Len(input') = Len(input) + 1 /\ input'[Len(input')].kind = k

ReadsNewLog == Len(input') = Len(input) + 1 /\ is_new_log(input'[Len(input')])

\* The continuation lines read while the record of line n is current.
Continuations(n) ==
    LET idx == SelectSeq([m \in 1..Len(input) |-> m],
                         LAMBDA m : input[m].kind = "other" /\ OwnerLine(m) = n)
    IN  [k \in 1..Len(idx) |-> Seg(idx[k], "line")]

\* ------------------------------------------------------------------ claims
\* C1: for an archive whose non-blank lines are a record line R1, two
\* stack-trace lines and a record line R2, the store after the archive holds
\* exactly the two records, R1 flagged has_stack_trace and R2 not, and
\* exactly one stack-trace row of the two lines, owned by R1's id.
C1_Archive ==
    LET nb == NonBlank(input)
    IN  /\ pc = "done"
        /\ Len(nb) = 4
        /\ is_new_log(nb[1]) /\ nb[2].kind = "trace"
        /\ nb[3].kind = "trace" /\ is_new_log(nb[4])

C1_Claim ==
    C1_Archive =>
        LET nb == NonBlank(input)
        IN  /\ Len(logs) = 2
            /\ logs[1].message = <<Seg(nb[1].no, "message")>>
            /\ logs[1].has_stack_trace = 1
            /\ logs[2].message = <<Seg(nb[4].no, "message")>>
            /\ logs[2].has_stack_trace = 0
            /\ Len(stack_traces) = 1
            /\ stack_traces[1].stack_trace =
                   <<Seg(nb[2].no, "line"), Seg(nb[3].no, "line")>>
            /\ stack_traces[1].log_id = 1

\* C2: whenever a stack trace is closed (by a new-record line or by the end
\* of the archive) and the record its lines followed is already in the logs
\* table at that moment, the row carries that record's id.  At the end of
\* the archive the remaining batch is inserted before the trace is closed.
C2_Claim ==
    [][\A i \in (Len(ClosedTraces) + 1)..Len(ClosedTraces') :
         \A j \in 1..Len(ClosedTraces'[i].stack_trace) :
           LET o == OwnerLineIn(input', ClosedTraces'[i].stack_trace[j].no)
               tbl == IF pc' = "done" THEN logs' ELSE logs
           IN  (o # 0 /\ HasRecord(tbl, o))
                   => ClosedTraces'[i].log_id = PosOfRecord(tbl, o)]_vars

\* C3: when a new-record line closes a stack trace whose owning record is
\* still unflushed in batch, the row handed over does not name another
\* record: it carries the id the owning record gets when it is flushed.
C3_Claim ==
    [][(pc' = "reading") =>
        \A i \in (Len(ClosedTraces) + 1)..Len(ClosedTraces') :
          \A j \in 1..Len(ClosedTraces'[i].stack_trace) :
            LET o == OwnerLineIn(input', ClosedTraces'[i].stack_trace[j].no)
            IN  (o # 0 /\ HasRecord(batch, o))
                    => ClosedTraces'[i].log_id
                           = Len(logs) + PosOfRecord(batch, o)]_vars

\* C4: when the archive ends nothing buffered is lost: every entry of the
\* three buffers is in its table, and a non-empty pending stack trace is a
\* row of stack_traces.
C4_Claim ==
    [][(pc = "reading" /\ pc' = "done") =>
        /\ \A i \in 1..Len(batch) : \E j \in 1..Len(logs') : logs'[j] = batch[i]
        /\ \A i \in 1..Len(error_batch) :
               \E j \in 1..Len(parsing_errors') : parsing_errors'[j] = error_batch[i]
        /\ \A i \in 1..Len(stack_trace_batch) :
               \E j \in 1..Len(stack_traces') : stack_traces'[j] = stack_trace_batch[i]
        /\ current_stack_trace # <<>> =>
               \E j \in 1..Len(stack_traces') :
                   stack_traces'[j].stack_trace = current_stack_trace]_vars

\* C5: the persisted message and raw text of every record are its first
\* line followed by every continuation line read while it was the current
\* record, in file order.
C5_Claim ==
    pc = "done" =>
        \A i \in 1..Len(logs) :
            LET n == logs[i].raw_log[1].no
            IN  /\ logs[i].message = <<Seg(n, "message")>> \o Continuations(n)
                /\ logs[i].raw_log = <<Seg(n, "line")>> \o Continuations(n)

C7_Claim == [][ReadsNewLog => current_stack_trace' = <<>>]_vars

\* C8: every record that was the current record when a stack-trace line was
\* read is persisted with has_stack_trace = 1.
C8_Claim ==
    pc = "done" =>
        \A i \in 1..Len(logs) :
            (\E m \in 1..Len(input) :
                 input[m].kind = "trace" /\ OwnerLine(m) = logs[i].raw_log[1].no)
                => logs[i].has_stack_trace = 1

\* C9: after every insert of the record batch, last_log_id is the id of the
\* last record inserted.
C9_Claim == [][Len(logs') > Len(logs) => last_log_id' = Some(Len(logs'))]_vars

Range(f) == {f[i] : i \in 1..Len(f)}

SharedTraceLines(rows, i, j) ==
    Range(rows[i].stack_trace) \cap Range(rows[j].stack_trace)

\* C11: a collected stack trace is saved at most once and under one owner:
\* a stack trace is saved only by a step that reads a new log line or by
\* the end of the archive, and no line of a trace is in two saved traces
\* (whether under the same log_id or under two).
C11_Theorem ==
    /\ [](\A i, j \in 1..Len(ClosedTraces) :
            i # j => SharedTraceLines(ClosedTraces, i, j) = {})
    /\ [][Len(ClosedTraces') > Len(ClosedTraces) => ReadsNewLog \/ pc' = "done"]_vars

\* Both ways of saving have happened in one archive: one trace saved by a
\* new log line, a later one by the end of the archive.
C11_Witness ==
    /\ pc = "done"
    /\ Len(stack_traces) >= 2
    /\ \E i \in 1..Len(stack_traces) :
           stack_traces[i].stack_trace[1].no < Len(input)
           /\ input[Len(input)].kind = "trace"
           /\ stack_traces[Len(stack_traces)].stack_trace[
                  Len(stack_traces[Len(stack_traces)].stack_trace)].no = Len(input)

\* ------------------------------------------------------------------- C12
\* C12: a step that reads a blank line leaves the current log entry, the
\* collected stack trace, last_log_id and the three batches as they were,
\* inserts nothing into any table (no flush) and records no parsing error.
C12_Theorem ==
    [][Reads("blank") =>
          UNCHANGED <<current_log_entry, current_stack_trace, last_log_id,
                      batch, error_batch, stack_trace_batch,
                      logs, parsing_errors, stack_traces>>]_vars

\* A blank line has just been read while an entry is open, a stack trace is
\* being collected and the record batch is not empty.
C12_Witness ==
    /\ pc = "reading"
    /\ input # <<>>
    /\ input[Len(input)].kind = "blank"
    /\ current_log_entry # None
    /\ current_stack_trace # <<>>
    /\ batch # <<>>

\* ------------------------------------------------------------------- C13
\* A step that takes a non-blank line through the loop body to its end
\* (no exception is raised on the way).
CompletesLine ==
    /\ Len(input') = Len(input) + 1
    /\ input'[Len(input')].kind # "blank"
    /\ event' = "ok"

C14_Claim ==
    [][event' \in {"flush_raised_in_line", "flush_raised_at_end"} =>
          /\ TableLengths(Locals') = committed
          /\ committed' = committed
          /\ pc' = "done"]_vars

\* ------------------------------------------------------------------- C15
\* The parsing errors recorded for line n among errs.
ErrorsOfLine(errs, n) == {j \in 1..Len(errs) : errs[j].line = n}

\* No line is persisted both as a parsing error carrying an exception and
\* as a record.
NoRecordOfExceptionLine ==
    \A j \in 1..Len(parsing_errors) :
        parsing_errors[j].error_message = "Exception"
            => ~HasRecord(logs, parsing_errors[j].line)

\* C15: a line during whose processing an exception is raised becomes
\* exactly one parsing error, which carries the exception; the archive goes
\* on with its next line; and the line is not also persisted as a record.
C15_Claim ==
    /\ [][event' \in LineExceptions =>
             /\ pc' = "reading" /\ archive' = archive
             /\ \E j \in 1..Len(AllErrors') :
                    /\ ErrorsOfLine(AllErrors', Len(input')) = {j}
                    /\ AllErrors'[j].error_message = "Exception"]_vars
    /\ []NoRecordOfExceptionLine

\* ------------------------------------------------------------------- C16
\* Line n was read in the archive being processed / that archive has just
\* been opened and none of its lines has been read.
InThisArchive(n) == n > archive_start

AtFirstLine == pc = "reading" /\ line_count = 0

\* C16: when an archive is opened, whatever happened to the one before,
\* there is no current log entry, no collected stack trace, no last_log_id
\* and the three batches are empty; and a saved stack trace whose lines are
\* of this archive has no line of another archive and is linked to no
\* record of another archive (its log_id is 0 or the id of a record of
\* this archive).
C16_Theorem ==
    /\ AtFirstLine =>
           /\ current_log_entry = None /\ current_stack_trace = <<>>
           /\ last_log_id = None
           /\ batch = <<>> /\ error_batch = <<>> /\ stack_trace_batch = <<>>
    /\ \A i \in 1..Len(ClosedTraces) :
           LET row == ClosedTraces[i] IN
           (\E j \in 1..Len(row.stack_trace) : InThisArchive(row.stack_trace[j].no))
               => /\ \A j \in 1..Len(row.stack_trace) :
                         InThisArchive(row.stack_trace[j].no)
                  /\ \/ row.log_id = 0
                     \/ /\ row.log_id \in 1..Len(logs)
                        /\ InThisArchive(logs[row.log_id].raw_log[1].no)

\* The second archive has just been opened after the first, in which a
\* record and a stack trace line had been read, ended in a rollback that
\* left nothing of it in the tables.
C16_Witness ==
    /\ archive = 2
    /\ AtFirstLine
    /\ archive_start = 2
    /\ input[1].kind = "primary" /\ input[2].kind = "trace"
    /\ logs = <<>>

\* ------------------------------------------------------------------- C17
\* C17: every step that brings the number of lines read from the archive
\* to a multiple of the checkpoint interval commits, whatever the line is:
\* after it every row of the three tables is committed.
C17_Claim ==
    [][(line_count' = line_count + 1 /\ line_count' % CommitEvery = 0)
          => committed' = TableLengths(Locals')]_vars

\* ------------------------------------------------------------------- C18
\* The line the loop classifies, and what parse_log_line returned for it.
StrippedText == strip(text)

Parsed == text_parsed[1]

IsRecord(p) == p.parsed /\ ~p.is_stack_trace

\* C18: for every classified line, the first of primary, fallback and the
\* stack trace test that matches decides what parse_log_line returns: a
\* primary match gives a record with the matched module and message, a
\* fallback match a record with an empty module, also when the line
\* contains "Exception" or passes any other part of the stack trace test;
\* only a line matching neither is a stack trace line, and only a line
\* failing all three is unparsed.  The loop's is_new_log is true exactly
\* when parse_log_line returns a record, and the model of the loop reads
\* the line under a kind that says the same.
C18_Theorem ==
    scan = "classified" =>
        LET line == StrippedText
            p == Parsed
            m == LOG_PATTERN(line)
            a == ALT_LOG_PATTERN(line)
            l == Line(1, KindOfText(text))
        IN  /\ m # None =>
                   /\ IsRecord(p)
                   /\ p.module = m[1].module /\ p.message = m[1].message
            /\ (m = None /\ a # None) =>
                   /\ IsRecord(p)
                   /\ p.module = <<>> /\ p.message = a[1].message
            /\ (m = None /\ a = None /\ is_stack_trace_line_text(line)) =>
                   p.is_stack_trace /\ p.stack_trace_line = Some(line)
            /\ (m = None /\ a = None /\ ~is_stack_trace_line_text(line)) =>
                   ~p.parsed /\ ~p.is_stack_trace
            /\ text_is_new_log <=> IsRecord(p)
            /\ is_new_log(l) <=> text_is_new_log
            /\ parse_log_line(l).parsed <=> p.parsed
            /\ parse_log_line(l).is_stack_trace <=> p.is_stack_trace
            /\ parse_log_line(l).module = "" <=> p.module = <<>>

\* A line has been classified that matches the primary pattern and passes
\* the stack trace test as well (its message holds "Exception"): it is a
\* new log with a module.
C18_Witness ==
    /\ scan = "classified"
    /\ LOG_PATTERN(StrippedText) # None
    /\ contains_Exception(StrippedText)
    /\ text_is_new_log
    /\ Parsed.module # <<>>
    /\ ~Parsed.is_stack_trace

\* ------------------------------------------------------------------- C19
\* The places of line where " - " starts.
Separators(line) ==
    {q \in 1..(Len(line) - 2) :
        line[q] = " " /\ line[q + 1] = "-" /\ line[q + 2] = " "}

\* The tokens of line that C19 speaks of: after the timestamp, the thread,
\* the level and the spaces that follow it, the text up to a " - ", if it
\* is not empty, has no whitespace in it and is not "-".
ModuleTokens(line) ==
    IF line = <<>> \/ line[1] # "TS" THEN {}
    ELSE
        LET j == RunEnd(line, 2, WordUnits)
            k == RunEnd(line, j + 1, SpaceUnits)
        IN  {SubSeq(line, k + 1, q - 1) : q \in
                {q \in Separators(line) :
                    /\ k > j /\ q > k + 1
                    /\ \A x \in (k + 1)..(q - 1) : ~IsSpace(line[x])
                    /\ SubSeq(line, k + 1, q - 1) # <<"-">>}}

\* parse_log_line returned a primary match.
PrimaryMatch == IsRecord(Parsed) /\ Parsed.module # <<>>

\* C19: a classified line is a primary match exactly when the text between
\* the level and the " - " separator is one whitespace-free token other
\* than "-" (a token with a hyphen inside included), and the module of
\* every primary match is that token and has no whitespace in it.
C19_Claim ==
    scan = "classified" =>
        /\ PrimaryMatch <=> ModuleTokens(StrippedText) # {}
        /\ PrimaryMatch =>
               /\ ModuleTokens(StrippedText) = {Parsed.module}
               /\ \A x \in 1..Len(Parsed.module) : ~IsSpace(Parsed.module[x])

\* ------------------------------------------------------------------- C20
IsPrefix(a, b) == Len(a) <= Len(b) /\ SubSeq(b, 1, Len(a)) = a

\* C20: the rows of the three tables are only added to.  A step of the
\* loop (a line read, with or without an exception on the way) and the
\* flush at the end of the archive keep every row that is in a table, with
\* all its fields, and add rows after it; and no step at all, the rollback
\* of lines 329-332 included, touches a row that was there at the last
\* commit.
C20_Theorem ==
    [][/\ event' \notin ArchiveExceptions =>
              /\ IsPrefix(logs, logs')
              /\ IsPrefix(stack_traces, stack_traces')
              /\ IsPrefix(parsing_errors, parsing_errors')
       /\ IsPrefix(SubSeq(logs, 1, committed[1]), logs')
       /\ IsPrefix(SubSeq(parsing_errors, 1, committed[2]), parsing_errors')
       /\ IsPrefix(SubSeq(stack_traces, 1, committed[3]), stack_traces')]_vars

\* An archive has ended in which a record was flushed by its own line and
\* then a stack trace line and a continuation line of that record were
\* read: the row is as it was flushed.
C20_Witness ==
    /\ pc = "done" /\ event = "ok"
    /\ Len(input) = 3
    /\ input[1].kind = "primary" /\ input[2].kind = "trace"
    /\ input[3].kind = "other"
    /\ batch_size = 1
    /\ Len(logs) = 1
    /\ logs[1].has_stack_trace = 0 /\ Len(logs[1].message) = 1

\* ------------------------------------------------------------------- C21
\* The rows of logs made from line n.
RecordsOfLine(n) == {i \in 1..Len(logs) : logs[i].raw_log[1].no = n}

\* The archive being processed has ended with the commit of line 321.
ArchiveCompleted == pc = "done" /\ event = "ok"

\* C21: when an archive has completed, every new log line of it has exactly
\* one row in logs; and at any time the rows of logs are in the order in
\* which their lines were read, over all flushes and all archives (so the
\* rows of an earlier line, and of an earlier archive, have the smaller
\* ids).
C21_Theorem ==
    /\ ArchiveCompleted =>
           \A n \in (archive_start + 1)..Len(input) :
               is_new_log(input[n]) => Cardinality(RecordsOfLine(n)) = 1
    /\ \A i, j \in 1..Len(logs) :
           i < j => logs[i].raw_log[1].no < logs[j].raw_log[1].no

\* The second archive has completed; each archive has given a record, and
\* the first had two of them flushed separately.
C21_Witness ==
    /\ ArchiveCompleted
    /\ archive = 2
    /\ batch_size = 1
    /\ Len(input) = 3 /\ archive_start = 2
    /\ \A n \in 1..3 : is_new_log(input[n])
    /\ Len(logs) = 3

\* ------------------------------------------------------------------- C22
\* The rows of stack_traces that carry log_id i.
TracesOfRecord(i) == {j \in 1..Len(stack_traces) : stack_traces[j].log_id = i}

\* C22: when an archive has completed, a row of logs has has_stack_trace 1
\* exactly if one row of stack_traces carries its id, and the log_id of
\* every row of stack_traces is the id of a row of logs.
C22_Claim ==
    ArchiveCompleted =>
        /\ \A i \in 1..Len(logs) :
               logs[i].has_stack_trace = 1 <=> Cardinality(TracesOfRecord(i)) = 1
        /\ \A j \in 1..Len(stack_traces) :
               stack_traces[j].log_id \in 1..Len(logs)

\* ------------------------------------------------------------------- C23
\* C23: the lines of a saved stack trace were all read after the same new
\* log line and before the next one: no saved stack trace has two lines
\* with a new log line between them.
C23_Claim ==
    \A i \in 1..Len(ClosedTraces) :
        \A a, b \in Range(ClosedTraces[i].stack_trace) :
            OwnerLine(a.no) = OwnerLine(b.no)

\* The lines of the archive being read that come after its first new-record
\* line and are neither new-record lines nor stack-trace lines.
AfterFirstRecord(n) ==
    /\ InThisArchive(n)
    /\ \E m \in (archive_start + 1)..(n - 1) : is_new_log(input[m])

UnclassifiedAfterRecord(n) ==
    n \in 1..Len(input) /\ input[n].kind = "other" /\ AfterFirstRecord(n)

CurrentRecordStays ==
    (\E m \in (archive_start + 1)..Len(input) : is_new_log(input[m]))
        => current_log_entry # None

NoUnparsedOutcome ==
    \A j \in 1..Len(AllErrors) :
        AllErrors[j].error_message # "Could not parse log line with any pattern"

\* C24 as stated: within one archive the current record, once set by the
\* first new-record line, is never None again; no unclassified line after
\* that line has a Parsing Error; and no Parsing Error carries "Could not
\* parse log line with any pattern".
C24_Claim ==
    /\ CurrentRecordStays
    /\ NoUnparsedOutcome
    /\ \A j \in 1..Len(AllErrors) : ~UnclassifiedAfterRecord(AllErrors[j].line)

\* C24, amended: within one archive the current record, once set by the
\* first new-record line, is never None again; no Parsing Error carries
\* "Could not parse log line with any pattern"; and the only Parsing Error an
\* unclassified line after that line can have is the one the handler of
\* line 285 records when a sink call raises while the line is processed.
C24_Theorem ==
    /\ CurrentRecordStays
    /\ NoUnparsedOutcome
    /\ \A j \in 1..Len(AllErrors) :
           UnclassifiedAfterRecord(AllErrors[j].line)
               => AllErrors[j].error_message = "Exception"

\* An archive after the first one where an unclassified line followed a
\* new-record line without a fault and left no Parsing Error.
C24_Witness ==
    /\ archive = 2 /\ event = "ok" /\ pc = "reading"
    /\ Len(input) = archive_start + 2
    /\ is_new_log(input[archive_start + 1])
    /\ input[archive_start + 2].kind = "other"
    /\ current_log_entry # None
    /\ \A j \in 1..Len(AllErrors) : AllErrors[j].line <= archive_start

\* C25: the run ends with a non-zero exit status only when create_database
\* raised; when the database was created and find_gz_files found no
\* archive, process_log_files returns and main ends with exit status 0,
\* its error handler not entered.
C25_Claim ==
    main_pc = "exited" =>
        /\ exit_status = Some(1) => event = "create_database_raised"
        /\ returned = "None" => exit_status = Some(0)
====
